---- MODULE Spec2Model ----
(***************************************************************************)
(* inofd (src/inofd/src/main.rs): find the hardlinks of a target file by   *)
(* inode and device, and its Btrfs reflink copies by FIEMAP extents.       *)
(*                                                                         *)
(* The filesystem is a small tree of directory entries below the search    *)
(* root.  Every entry carries what lstat() and FIEMAP report for it.  One  *)
(* run of main() is the sequence of steps TargetInfo, BtrfsCheck,          *)
(* HardlinkGate, HardVisit*, HardCollect, ReflinkGate, ReflinkVisit*,      *)
(* ReflinkCollect, Report.  The jwalk walker delivers the entries that     *)
(* survive the per-directory retain() in any order in which a directory    *)
(* comes before its children.                                              *)
(***************************************************************************)
EXTENDS Integers, Sequences, FiniteSets, TLC

\* ------------------------------------------------------------------ bounds
MaxNode == 3        \* directory entries below the search root
MaxDev == 2         \* device ids 1..MaxDev
MaxIno == 2         \* inode numbers 1..MaxIno
MaxSize == 1        \* file sizes 0..MaxSize
MaxNlink == 2       \* link counts 1..MaxNlink
MaxPhys == 2        \* physical offsets 1..MaxPhys
MaxLen == 2         \* extent lengths 1..MaxLen
MaxExtents == 2     \* extents FIEMAP reports for one file

\* --------------------------------------------------------- program constants
FIEMAP_EXTENT_FLAG_INLINE == 4

\* ------------------------------------------------------------- filesystem
Nodes == 0 .. MaxNode
Devs == 1 .. MaxDev
Inos == 1 .. MaxIno
Sizes == 0 .. MaxSize

\* The search root is node 0; node n > 0 is a child of Parent(n).
Parent(n) == (n - 1) \div 2
Children(n) == {c \in Nodes : c > 0 /\ Parent(c) = n}

\* Entry names: the even-numbered entries below the root are dot files.
Hidden(n) == n > 0 /\ n % 2 = 0

\* io::Error values of File::open / the FIEMAP ioctl.
NoError == [kind |-> "Ok", os |-> 0]
ErrNotFound == [kind |-> "NotFound", os |-> 2]
ErrIo == [kind |-> "Other", os |-> 5]
ErrNotSup == [kind |-> "Other", os |-> 95]

\* A path is the base it is spelled from and the entry it names.  The walker
\* spells every entry from the search path; args.target may be spelled from
\* another base (relative against absolute, "./f" against "f").  PathBuf
\* equality is component-wise, so two spellings of one file are different.
WalkerPath(n) == [base |-> "search", node |-> n]

\* PathBuf's Ord: the entries are named so that their names sort as their
\* numbers do.
PathLess(p, q) ==
    IF p.base = q.base THEN p.node < q.node ELSE p.base = "other"

\* ------------------------------------------------------------------ state
VARIABLES
    args,                    \* Args: target, disable_reflink, force_hardlink, skip_hidden
    fs,                      \* entry -> what lstat and FIEMAP report for it
    tfile,                   \* the file args.target names
    pc,                      \* position in main()
    exit,                    \* what main() returned: "Running", "Ok", "Err"
    target_stat,             \* outcome of get_target_inode_info
    statfs_result,           \* outcome of statfs on the target
    target_info,             \* (target_inode, target_dev, target_nlink, target_size)
    is_btrfs,
    perform_reflink_search,
    perform_hardlink_search,
    hard_walk,               \* the walker of find_hard_links
    hard_links_set,
    target_extents,
    reflink_walk,            \* the walker of find_reflinked_files_by_extents
    btrfs_results,
    btrfs_shared_count,
    total_results,
    unsorted,                \* total_results.into_iter().collect(): the HashSet's order
    report,                  \* the printed list: tag and path, in order
    stderr                   \* diagnostics printed

vars == <<args, fs, tfile, pc, exit, target_stat, statfs_result, target_info,
          is_btrfs, perform_reflink_search, perform_hardlink_search, hard_walk,
          hard_links_set, target_extents, reflink_walk, btrfs_results,
          btrfs_shared_count, total_results, unsorted, report, stderr>>

\* ------------------------------------------------------- pure functions
\* Metadata::is_dir and the Ok/Err of DirEntry::metadata.
is_dir(e) == e.kind \in {"dir", "baddir"}
metadata_ok(e) == e.kind \notin {"absent", "nostat"}

\* retain() without the comparison of devices.
RetainEntry_AnyDevice(e, target_dev) == metadata_ok(e)

\* The children.retain closure of process_read_dir.
RetainEntry(e, target_dev) ==
    IF metadata_ok(e) THEN e.dev = target_dev ELSE FALSE

\* The filter_map closure of find_hard_links.
HardlinkMatch(e, target_inode, target_dev) ==
    /\ metadata_ok(e)
    /\ ~is_dir(e) /\ e.ino = target_inode /\ e.dev = target_dev

\* e.fe_flags.bits() & FIEMAP_EXTENT_FLAG_INLINE == 0
NotInline(x) == (x.fe_flags \div FIEMAP_EXTENT_FLAG_INLINE) % 2 = 0

get_extents(f) ==
    IF f.fiemap.err # NoError
    THEN [ok |-> FALSE, err |-> f.fiemap.err, extents |-> <<>>]
    ELSE [ok |-> TRUE, err |-> NoError,
          extents |-> SelectSeq(f.fiemap.raw, NotInline)]

Min(a, b) == IF a < b THEN a ELSE b

\* The extents compared as sets: every extent of one list is in the other.
same_extents_Unordered(extents1, extents2) ==
    \A i \in 1 .. Min(Len(extents1), Len(extents2)) :
        \E j \in 1 .. Len(extents2) :
            /\ extents1[i].fe_physical = extents2[j].fe_physical
            /\ extents1[i].fe_length = extents2[j].fe_length

\* iter().zip().all(): the pairs up to the shorter length.
same_extents(extents1, extents2) ==
    \A i \in 1 .. Min(Len(extents1), Len(extents2)) :
        /\ extents1[i].fe_physical = extents2[i].fe_physical
        /\ extents1[i].fe_length = extents2[i].fe_length

\* The pre-filter without the comparison of sizes.
ReflinkPrefilter_AnySize(e, target_inode, target_size) ==
    /\ metadata_ok(e)
    /\ ~(is_dir(e) \/ e.ino = target_inode)

\* The pre-filter of the filter_map closure of find_reflinked_files_by_extents.
ReflinkPrefilter(e, target_inode, target_size) ==
    /\ metadata_ok(e)
    /\ ~(is_dir(e) \/ e.ino = target_inode \/ e.size # target_size)

\* The Ok arm of match get_extents(&path): count check, then same_extents.
ExtentsMatch(r, t_extents) ==
    /\ r.ok
    /\ Len(r.extents) = Len(t_extents)
    /\ same_extents(r.extents, t_extents)

ReflinkMatch(e, target_inode, target_size, t_extents) ==
    /\ ReflinkPrefilter(e, target_inode, target_size)
    /\ ExtentsMatch(get_extents(e), t_extents)

\* The Err arm: the errors that are dropped without a word.
IsBenign(err) ==
    \/ err.kind = "NotFound" \/ err.kind = "PermissionDenied"
    \/ err.os = 6 \/ err.os = 95 \/ err.os = 25

ExtentWarning(e, target_inode, target_size) ==
    /\ ReflinkPrefilter(e, target_inode, target_size)
    /\ ~get_extents(e).ok
    /\ ~IsBenign(get_extents(e).err)

\* ---------------------------------------------------------------- walker
WalkIdle == [started |-> FALSE, kept |-> {}, yielded |-> {}, read |-> {}]

\* WalkDir::new(search_path)...process_read_dir(..): jwalk hands the root entry
\* to the process_read_dir closure as well, before it yields anything.
WalkStart(target_dev) ==
    [started |-> TRUE,
     kept |-> IF RetainEntry(fs[0], target_dev) THEN {0} ELSE {},
     yielded |-> {},
     read |-> {}]

\* The walker yields entry n; when n is a directory it reads it, drops the
\* hidden children under skip_hidden and hands the rest to retain().
WalkVisit(w, n, target_dev, skip_hidden) ==
    [w EXCEPT
       !.yielded = @ \cup {n},
       !.read = IF fs[n].kind = "dir" THEN @ \cup {n} ELSE @,
       !.kept = IF fs[n].kind = "dir"
                THEN @ \cup {c \in Children(n) :
                               /\ fs[c].kind # "absent"
                               /\ ~(skip_hidden /\ Hidden(c))
                               /\ RetainEntry(fs[c], target_dev)}
                ELSE @]

WalkDone(w) == w.kept = w.yielded

\* A directory that cannot be read comes out of the iterator as an Err item.
TraversalWarning(n) ==
    IF fs[n].kind = "baddir" THEN {<<"JWalk", n>>} ELSE {}

\* ------------------------------------------------------------------ sort
RECURSIVE Insert(_, _)
Insert(x, s) ==
    IF s = <<>> THEN <<x>>
    ELSE IF PathLess(s[1], x) THEN <<s[1]>> \o Insert(x, Tail(s))
    ELSE <<x>> \o s

RECURSIVE InsertionSort(_)
InsertionSort(s) ==
    IF s = <<>> THEN <<>> ELSE Insert(s[1], InsertionSort(Tail(s)))

\* The list left in the HashSet's order.
sort_Skipped(s) == s

\* sorted_results.sort()
sort(s) == InsertionSort(s)

\* The orders a HashSet may hand its elements out in.
Orders(S) ==
    {s \in [1 .. Cardinality(S) -> S] :
        \A i, j \in 1 .. Cardinality(S) : i # j => s[i] # s[j]}

\* The status of one line of the detailed list.
Classify(link, target_inode, reflink_on) ==
    IF ~metadata_ok(fs[link.node]) THEN "GONE"
    ELSE IF fs[link.node].ino = target_inode THEN "HARDLINK"
    ELSE IF reflink_on THEN "REFLINK"
    ELSE "?"

\* ------------------------------------------------------------ main(), steps
\* 1. get_target_inode_info(&args.target)
TargetInfo ==
    /\ pc = "main"
    /\ \E ok \in BOOLEAN :
         /\ target_stat' = IF ok THEN "ok" ELSE "err"
         /\ IF ok
            THEN /\ target_info' = [ino |-> tfile.ino, dev |-> tfile.dev,
                                    nlink |-> tfile.nlink, size |-> tfile.size]
                 /\ pc' = "statfs"
                 /\ exit' = exit
            ELSE /\ target_info' = target_info
                 /\ pc' = "exit"
                 /\ exit' = "Err"
    /\ UNCHANGED <<args, fs, tfile, statfs_result, is_btrfs,
                   perform_reflink_search, perform_hardlink_search, hard_walk,
                   hard_links_set, target_extents, reflink_walk, btrfs_results,
                   btrfs_shared_count, total_results, unsorted, report, stderr>>

\* is_on_btrfs(&args.target), then perform_reflink_search
BtrfsCheck ==
    /\ pc = "statfs"
    /\ \E r \in {"btrfs", "other", "err"} :
         /\ statfs_result' = r
         /\ IF r = "err"
            THEN /\ pc' = "exit"
                 /\ exit' = "Err"
                 /\ UNCHANGED <<is_btrfs, perform_reflink_search>>
            ELSE /\ is_btrfs' = (r = "btrfs")
                 /\ perform_reflink_search' =
                        ((r = "btrfs") /\ ~args.disable_reflink)
                 /\ pc' = "hardlink"
                 /\ exit' = exit
    /\ UNCHANGED <<args, fs, tfile, target_stat, target_info,
                   perform_hardlink_search, hard_walk,
                   hard_links_set, target_extents, reflink_walk, btrfs_results,
                   btrfs_shared_count, total_results, unsorted, report, stderr>>

\* The link count compared with >= in place of >.
PerformHardlinkSearch_OffByOne(target_nlink, force_hardlink) ==
    target_nlink >= 1 \/ force_hardlink

\* let perform_hardlink_search = target_nlink > 1 || args.force_hardlink
PerformHardlinkSearch(target_nlink, force_hardlink) ==
    target_nlink > 1 \/ force_hardlink

\* 2. perform_hardlink_search, and the start of find_hard_links
HardlinkGate ==
    /\ pc = "hardlink"
    /\ perform_hardlink_search' =
           PerformHardlinkSearch(target_info.nlink, args.force_hardlink)
    /\ IF perform_hardlink_search'
       THEN /\ hard_walk' = WalkStart(target_info.dev)
            /\ pc' = "hard_walk"
       ELSE /\ hard_walk' = hard_walk
            /\ pc' = "reflink"
    /\ UNCHANGED <<args, fs, tfile, exit, target_stat, statfs_result,
                   target_info, is_btrfs, perform_reflink_search,
                   hard_links_set, target_extents, reflink_walk, btrfs_results,
                   btrfs_shared_count, total_results, unsorted, report, stderr>>

\* find_hard_links: the walker yields one entry and the closure sees it.
HardVisit(n) ==
    /\ pc = "hard_walk"
    /\ n \in hard_walk.kept \ hard_walk.yielded
    /\ hard_walk' = WalkVisit(hard_walk, n, target_info.dev, args.skip_hidden)
    /\ hard_links_set' =
           IF HardlinkMatch(fs[n], target_info.ino, target_info.dev)
           THEN hard_links_set \cup {WalkerPath(n)}
           ELSE hard_links_set
    /\ stderr' = stderr \cup TraversalWarning(n)
    /\ UNCHANGED <<args, fs, tfile, pc, exit, target_stat, statfs_result,
                   target_info, is_btrfs, perform_reflink_search,
                   perform_hardlink_search, target_extents, reflink_walk,
                   btrfs_results, btrfs_shared_count, total_results, unsorted,
                   report>>

\* hard_links_set.remove(&args.target); total_results.extend(hard_links_set)
HardCollect ==
    /\ pc = "hard_walk"
    /\ WalkDone(hard_walk)
    /\ hard_links_set' = hard_links_set \ {args.target}
    /\ total_results' = total_results \cup hard_links_set'
    /\ stderr' = IF target_info.nlink <= 1
                 THEN stderr \cup {<<"Forced", 0>>} ELSE stderr
    /\ pc' = "reflink"
    /\ UNCHANGED <<args, fs, tfile, exit, target_stat, statfs_result,
                   target_info, is_btrfs, perform_reflink_search,
                   perform_hardlink_search, hard_walk, target_extents,
                   reflink_walk, btrfs_results, btrfs_shared_count, unsorted,
                   report>>

\* 3. get_extents(&args.target), the inline-data check, and the start of
\* find_reflinked_files_by_extents
ReflinkGate ==
    /\ pc = "reflink"
    /\ IF perform_reflink_search
       THEN LET r == get_extents(tfile) IN
            IF ~r.ok
            THEN /\ pc' = "exit"
                 /\ exit' = "Err"
                 /\ UNCHANGED <<target_extents, reflink_walk, stderr>>
            ELSE /\ target_extents' = r.extents
                 /\ exit' = exit
                 /\ IF r.extents = <<>> /\ target_info.size > 0
                    THEN /\ pc' = "report"
                         /\ stderr' = stderr \cup {<<"Inline", 0>>}
                         /\ reflink_walk' = reflink_walk
                    ELSE /\ pc' = "reflink_walk"
                         /\ stderr' = stderr
                         /\ reflink_walk' = WalkStart(target_info.dev)
       ELSE /\ pc' = "report"
            /\ UNCHANGED <<exit, target_extents, reflink_walk, stderr>>
    /\ UNCHANGED <<args, fs, tfile, target_stat, statfs_result, target_info,
                   is_btrfs, perform_reflink_search, perform_hardlink_search,
                   hard_walk, hard_links_set, btrfs_results,
                   btrfs_shared_count, total_results, unsorted, report>>

\* find_reflinked_files_by_extents: one entry through the closure.
ReflinkVisit(n) ==
    /\ pc = "reflink_walk"
    /\ n \in reflink_walk.kept \ reflink_walk.yielded
    /\ reflink_walk' =
           WalkVisit(reflink_walk, n, target_info.dev, args.skip_hidden)
    /\ btrfs_results' =
           IF ReflinkMatch(fs[n], target_info.ino, target_info.size,
                           target_extents)
           THEN btrfs_results \cup {WalkerPath(n)}
           ELSE btrfs_results
    /\ stderr' = stderr \cup TraversalWarning(n) \cup
           (IF ExtentWarning(fs[n], target_info.ino, target_info.size)
            THEN {<<"Extent", n>>} ELSE {})
    /\ UNCHANGED <<args, fs, tfile, pc, exit, target_stat, statfs_result,
                   target_info, is_btrfs, perform_reflink_search,
                   perform_hardlink_search, hard_walk, hard_links_set,
                   target_extents, btrfs_shared_count, total_results, unsorted,
                   report>>

\* Ok(btrfs_results): the count, and total_results.extend(btrfs_results)
ReflinkCollect ==
    /\ pc = "reflink_walk"
    /\ WalkDone(reflink_walk)
    /\ btrfs_shared_count' = Cardinality(btrfs_results)
    /\ total_results' = total_results \cup btrfs_results
    /\ pc' = "report"
    /\ UNCHANGED <<args, fs, tfile, exit, target_stat, statfs_result,
                   target_info, is_btrfs, perform_reflink_search,
                   perform_hardlink_search, hard_walk, hard_links_set,
                   target_extents, reflink_walk, btrfs_results, unsorted,
                   report, stderr>>

\* 4. the sorted, tagged list
Report ==
    /\ pc = "report"
    /\ \E order \in Orders(total_results) :
         /\ unsorted' = order
         /\ LET sorted_results == sort(order) IN
            report' = [i \in 1 .. Len(sorted_results) |->
                         [tag |-> Classify(sorted_results[i], target_info.ino,
                                           perform_reflink_search),
                          path |-> sorted_results[i]]]
    /\ pc' = "done"
    /\ exit' = "Ok"
    /\ UNCHANGED <<args, fs, tfile, target_stat, statfs_result, target_info,
                   is_btrfs, perform_reflink_search, perform_hardlink_search,
                   hard_walk, hard_links_set, target_extents, reflink_walk,
                   btrfs_results, btrfs_shared_count, total_results, stderr>>

\* ------------------------------------------------------- initial states
\* FiemapExtent; fe_flags is 0, FIEMAP_EXTENT_LAST, or either with the inline
\* bit.
Extents ==
    [fe_physical : 1 .. MaxPhys, fe_length : 1 .. MaxLen,
     fe_flags : {0, 1, FIEMAP_EXTENT_FLAG_INLINE}]

ExtentLists ==
    UNION {[1 .. k -> Extents] : k \in 0 .. MaxExtents}

\* What FIEMAP answers for a file: an error, or its extents.
Fiemaps ==
    {[err |-> e, raw |-> <<>>] : e \in {ErrNotFound, ErrIo}} \cup
    {[err |-> NoError, raw |-> x] : x \in ExtentLists}

\* The files of the tree have no extent or the one extent at 1.
TreeFiemaps ==
    {f \in Fiemaps :
        \A i \in 1 .. Len(f.raw) :
            i = 1 /\ f.raw[i] = [fe_physical |-> 1, fe_length |-> 1, fe_flags |-> 0]}

\* FIEMAP on a directory: EOPNOTSUPP.
DirFiemap == [err |-> ErrNotSup, raw |-> <<>>]

\* What an entry of the tree is: a name of one of the inodes Devs \X Inos (a
\* regular file, or the target when that is a directory), a directory of its
\* own (readable or not) on some device, missing, or not stat-able.
Keys == Devs \X Inos

Refs ==
    [type : {"inode"}, dev : Devs, ino : Inos] \cup
    [type : {"dir", "baddir"}, dev : Devs, ino : {0}] \cup
    [type : {"absent", "nostat"}, dev : {0}, ino : {0}]

Absent == [type |-> "absent", dev |-> 0, ino |-> 0]

KeyOf(r) == <<r.dev, r.ino>>

\* A directory that is not the target has an inode number no file has.
Entry(r, n, tbl) ==
    IF r.type = "inode"
    THEN [kind |-> tbl[KeyOf(r)].kind, dev |-> r.dev, ino |-> r.ino,
          size |-> tbl[KeyOf(r)].size, fiemap |-> tbl[KeyOf(r)].fiemap]
    ELSE [kind |-> r.type, dev |-> r.dev,
          ino |-> IF r.type \in {"dir", "baddir"} THEN MaxIno + 1 + n ELSE 0,
          size |-> 0, fiemap |-> DirFiemap]

\* The inode tables: the target's inode is the target, an inode some entry
\* names is a regular file of any size and extents.
RECURSIVE Tables(_, _, _)
Tables(ks, used, t) ==
    IF ks = {} THEN {<<>>}
    ELSE LET k == CHOOSE x \in ks : TRUE IN
         {(k :> a) @@ f :
            f \in Tables(ks \ {k}, used, t),
            a \in IF k = <<t.dev, t.ino>>
                  THEN {[kind |-> t.kind, size |-> t.size, fiemap |-> t.fiemap]}
                  ELSE IF k \in used
                  THEN [kind : {"file"}, size : Sizes, fiemap : TreeFiemaps]
                  ELSE {[kind |-> "file", size |-> 0, fiemap |-> DirFiemap]}}

\* The trees: entries exist only below readable directories, the search path
\* exists, the target is where tfile.node says, a directory has one name and
\* the target's inode has no more names than its link count.
IsTarget(r, t) == r.type = "inode" /\ r.dev = t.dev /\ r.ino = t.ino

Listable(r, t) == r.type = "dir" \/ (IsTarget(r, t) /\ t.kind = "dir")

WellFormed(ref, t) ==
    /\ ref[0] # Absent
    /\ t.node \in Nodes => IsTarget(ref[t.node], t)
    /\ Cardinality({n \in Nodes : IsTarget(ref[n], t)})
          + (IF t.node \in Nodes THEN 0 ELSE 1) <= t.nlink
    /\ t.kind = "dir" =>
          Cardinality({n \in Nodes : IsTarget(ref[n], t)})
             = (IF t.node \in Nodes THEN 1 ELSE 0)
    /\ \A n \in Nodes \ {0} :
          ref[n] # Absent => Listable(ref[Parent(n)], t)

\* The target is a regular file or a directory, on device 1 with inode 1,
\* at an entry of the tree or outside it (node -1).
Targets(fiemaps) ==
    [kind : {"file"}, dev : {1}, ino : {1}, nlink : 1 .. MaxNlink,
     size : Sizes, fiemap : fiemaps, node : {-1} \cup Nodes] \cup
    [kind : {"dir"}, dev : {1}, ino : {1}, nlink : 1 .. MaxNlink,
     size : {0}, fiemap : {DirFiemap}, node : {-1} \cup Nodes]

\* main() has not started.
InitLocals ==
    /\ pc = "main"
    /\ exit = "Running"
    /\ target_stat = "unknown"
    /\ statfs_result = "unknown"
    /\ target_info = [ino |-> 0, dev |-> 0, nlink |-> 0, size |-> 0]
    /\ is_btrfs = FALSE
    /\ perform_reflink_search = FALSE
    /\ perform_hardlink_search = FALSE
    /\ hard_walk = WalkIdle
    /\ hard_links_set = {}
    /\ target_extents = <<>>
    /\ reflink_walk = WalkIdle
    /\ btrfs_results = {}
    /\ btrfs_shared_count = 0
    /\ total_results = {}
    /\ unsorted = <<>>
    /\ report = <<>>
    /\ stderr = {}

\* Before main(): a target, a tree that holds it or not, and the arguments.
\* The runs are without -i (skip_hidden is off, the default).
Init ==
    /\ tfile \in Targets(TreeFiemaps)
    /\ \E ref \in {r \in [Nodes -> Refs] : WellFormed(r, tfile)} :
         \E tbl \in Tables(Keys,
                           {KeyOf(ref[n]) : n \in {m \in Nodes :
                                                      ref[m].type = "inode"}},
                           tfile) :
            fs = [n \in Nodes |-> Entry(ref[n], n, tbl)]
    /\ args \in [target : {[base |-> b, node |-> tfile.node] :
                              b \in IF tfile.node \in Nodes
                                    THEN {"search", "other"} ELSE {"other"}},
                 disable_reflink : BOOLEAN,
                 force_hardlink : BOOLEAN,
                 skip_hidden : {FALSE}]
    /\ InitLocals

\* Between the traversals and the list another process replaces the file a
\* found path names, or removes it: the path now resolves to another inode,
\* maybe on another device.
Replace(n) ==
    /\ pc = "report"
    /\ WalkerPath(n) \in total_results
    /\ \E k \in {"file", "absent"}, d \in Devs, i \in Inos :
         /\ k = "absent" => (d = 1 /\ i = 1)
         /\ fs' = [fs EXCEPT ![n] =
                      IF k = "absent"
                      THEN [@ EXCEPT !.kind = "absent", !.dev = 0, !.ino = 0]
                      ELSE [@ EXCEPT !.kind = "file", !.dev = d, !.ino = i]]
         /\ fs' # fs
    /\ UNCHANGED <<args, tfile, pc, exit, target_stat, statfs_result,
                   target_info, is_btrfs, perform_reflink_search,
                   perform_hardlink_search, hard_walk, hard_links_set,
                   target_extents, reflink_walk, btrfs_results,
                   btrfs_shared_count, total_results, unsorted, report, stderr>>

Next ==
    \/ TargetInfo
    \/ BtrfsCheck
    \/ HardlinkGate
    \/ \E n \in Nodes : HardVisit(n)
    \/ HardCollect
    \/ ReflinkGate
    \/ \E n \in Nodes : ReflinkVisit(n)
    \/ ReflinkCollect
    \/ Report

Spec == Init /\ [][Next]_vars

\* The same run on a filesystem that changes before the list is printed.
NextLive ==
    \/ Next
    \/ \E n \in Nodes : Replace(n)

SpecLive == Init /\ [][NextLive]_vars

\* The search path names one regular file, on the target's device: the walker
\* yields it as its only entry.  The target and the file have any extents.
InitExtents ==
    /\ tfile \in {t \in Targets(Fiemaps) : t.kind = "file" /\ t.node = -1}
    /\ \E sz \in Sizes, f \in Fiemaps :
         fs = [n \in Nodes |->
                 IF n = 0
                 THEN [kind |-> "file", dev |-> 1, ino |-> 2, size |-> sz,
                       fiemap |-> f]
                 ELSE Entry(Absent, n, <<>>)]
    /\ args = [target |-> [base |-> "other", node |-> -1],
               disable_reflink |-> FALSE, force_hardlink |-> FALSE,
               skip_hidden |-> FALSE]
    /\ InitLocals

SpecExtents == InitExtents /\ [][Next]_vars

\* ---------------------------------------------------------------- claims
\* What the filesystem and the arguments say, apart from any walk.
SameFile(n) ==
    /\ metadata_ok(fs[n])
    /\ fs[n].dev = tfile.dev /\ fs[n].ino = tfile.ino

OtherDevice(n) == metadata_ok(fs[n]) /\ fs[n].dev # tfile.dev

\* The extents that are not inline, as (physical, length) pairs, in order.
Layout(raw) ==
    LET kept == SelectSeq(raw, NotInline) IN
    [i \in 1 .. Len(kept) |-> <<kept[i].fe_physical, kept[i].fe_length>>]

Reverse(s) == [i \in 1 .. Len(s) |-> s[Len(s) + 1 - i]]

\* Entry n is below the search root through readable directories of the
\* target's device only, and is on that device itself.
RECURSIVE Reachable(_)
Reachable(n) ==
    /\ metadata_ok(fs[n]) /\ fs[n].dev = tfile.dev
    /\ n > 0 =>
         /\ Reachable(Parent(n))
         /\ fs[Parent(n)].kind = "dir"
         /\ ~(args.skip_hidden /\ Hidden(n))

HardlinkStageOver ==
    pc \in {"reflink", "reflink_walk", "report", "done"}

\* C1: after the hardlink search and the removal of the target's own path, an
\* entry the walker yielded is in the hardlink result set iff it is not a
\* directory, is on the target's device, has the target's inode, and is not
\* the target itself.
C1_HardlinkIffNotSelf ==
    (HardlinkStageOver /\ hard_walk.started) =>
        \A n \in hard_walk.yielded :
            WalkerPath(n) \in hard_links_set <=>
                (~is_dir(fs[n]) /\ SameFile(n) /\ n # tfile.node)

\* C2: an entry on another device than the target's is in no result set, and
\* no walker reads such a directory.
C2_DevicePruning ==
    \A n \in Nodes :
        OtherDevice(n) =>
            /\ WalkerPath(n) \notin
                   hard_links_set \cup btrfs_results \cup total_results
            /\ n \notin hard_walk.read \cup reflink_walk.read
            /\ n \notin hard_walk.yielded \cup reflink_walk.yielded

\* Both walks ran to the end over a tree with a match on the target's device
\* and, in a directory both walks read, a regular file of another device that
\* has the target's inode number, size and extents.
C2_Witness ==
    /\ pc = "done"
    /\ hard_walk.started /\ reflink_walk.started
    /\ total_results # {}
    /\ \E n \in Nodes \ {0} :
         /\ OtherDevice(n) /\ fs[n].kind = "file"
         /\ fs[n].ino = tfile.ino /\ fs[n].size = tfile.size
         /\ fs[n].fiemap = tfile.fiemap
         /\ Parent(n) \in hard_walk.read \cap reflink_walk.read

\* C3: a candidate the reflink walk yielded that passes the pre-filter and
\* whose extents can be read is in the reflink result set iff its extents and
\* the target's are the same (physical, length) pairs in the same order.
C3_ExtentComparison ==
    pc \in {"report", "done"} =>
        \A n \in reflink_walk.yielded :
            (/\ ReflinkPrefilter(fs[n], tfile.ino, tfile.size)
             /\ fs[n].fiemap.err = NoError) =>
                (WalkerPath(n) \in btrfs_results <=>
                    Layout(fs[n].fiemap.raw) = Layout(tfile.fiemap.raw))

\* A candidate whose two extents are the target's in reverse order, with other
\* flags, went through the comparison and is not in the result set.
C3_Witness ==
    /\ pc = "done"
    /\ \E n \in reflink_walk.yielded :
         /\ ReflinkPrefilter(fs[n], tfile.ino, tfile.size)
         /\ fs[n].fiemap.err = NoError
         /\ Len(Layout(tfile.fiemap.raw)) = 2
         /\ Layout(fs[n].fiemap.raw) = Reverse(Layout(tfile.fiemap.raw))
         /\ Layout(fs[n].fiemap.raw) # Layout(tfile.fiemap.raw)
         /\ WalkerPath(n) \notin btrfs_results

\* C4: main() returns an error iff the target's metadata query or its
\* filesystem-type query failed.
C4_OnlyTwoFatalErrors ==
    pc \in {"done", "exit"} =>
        (exit = "Err" <=> (target_stat = "err" \/ statfs_result = "err"))

\* C5: the reflink traversal starts only on Btrfs, with reflink search not
\* disabled and a nonempty target extent sequence; with an empty target extent
\* sequence it does not start and the reflink result set is empty.
C5_ReflinkGating ==
    /\ reflink_walk.started =>
         /\ statfs_result = "btrfs"
         /\ ~args.disable_reflink
         /\ Layout(tfile.fiemap.raw) # <<>>
    /\ (tfile.fiemap.err = NoError /\ Layout(tfile.fiemap.raw) = <<>>) =>
         (~reflink_walk.started /\ btrfs_results = {})

\* C6: a path printed with a relation tag resolves, when it is classified, to
\* a file on the target's device.
C6_TaggedOnTargetDevice ==
    pc = "done" =>
        \A i \in 1 .. Len(report) :
            report[i].tag \in {"HARDLINK", "REFLINK", "?"} =>
                fs[report[i].path.node].dev = tfile.dev

\* C7: the list is the union of the two result sets, a path of the hardlink
\* result set is tagged HARDLINK and a path of the reflink result set alone is
\* tagged REFLINK.
C7_TaggedByProducer ==
    pc = "done" =>
        /\ {report[i].path : i \in 1 .. Len(report)} =
               hard_links_set \cup btrfs_results
        /\ \A i \in 1 .. Len(report) :
             report[i].tag = IF report[i].path \in hard_links_set
                             THEN "HARDLINK" ELSE "REFLINK"

\* What the filesystem and the arguments determine, whatever the order of
\* delivery: the two result sets.
ExpectedHardlinks ==
    IF tfile.nlink > 1 \/ args.force_hardlink
    THEN {WalkerPath(n) :
            n \in {m \in Nodes :
                     Reachable(m) /\ ~is_dir(fs[m]) /\ SameFile(m)}}
         \ {args.target}
    ELSE {}

ExpectedReflinks ==
    IF /\ statfs_result = "btrfs" /\ ~args.disable_reflink
       /\ tfile.fiemap.err = NoError
       /\ ~(Layout(tfile.fiemap.raw) = <<>> /\ tfile.size > 0)
    THEN {WalkerPath(n) :
            n \in {m \in Nodes :
                     /\ Reachable(m) /\ ~is_dir(fs[m])
                     /\ fs[m].ino # tfile.ino /\ fs[m].size = tfile.size
                     /\ fs[m].fiemap.err = NoError
                     /\ Layout(fs[m].fiemap.raw) = Layout(tfile.fiemap.raw)}}
    ELSE {}

\* C8: on an unchanged filesystem the list main() prints is determined by the
\* filesystem and the arguments: the paths of the two result sets in ascending
\* order, each once, with its tag, whatever order the walkers delivered the
\* entries in and whatever order the HashSet kept them in.
C8_ReportDetermined ==
    pc = "done" =>
        /\ Len(report) = Cardinality(ExpectedHardlinks \cup ExpectedReflinks)
        /\ {report[i].path : i \in 1 .. Len(report)} =
               ExpectedHardlinks \cup ExpectedReflinks
        /\ \A i, j \in 1 .. Len(report) :
             i < j => PathLess(report[i].path, report[j].path)
        /\ \A i \in 1 .. Len(report) :
             report[i].tag = IF report[i].path \in ExpectedHardlinks
                             THEN "HARDLINK" ELSE "REFLINK"

\* A list with a hardlink and a reflink whose HashSet order was not the
\* sorted order.
C8_Witness ==
    /\ pc = "done"
    /\ Len(report) >= 2
    /\ unsorted # [i \in 1 .. Len(report) |-> report[i].path]
    /\ \E i, j \in 1 .. Len(report) :
         report[i].tag = "HARDLINK" /\ report[j].tag = "REFLINK"

\* C9: a path of the reflink result set is a non-directory with another inode
\* than the target's and the target's size, and no extent query was made for
\* a candidate of another size.
C9_ReflinkPrefilter ==
    /\ \A p \in btrfs_results :
         /\ metadata_ok(fs[p.node]) /\ ~is_dir(fs[p.node])
         /\ fs[p.node].ino # tfile.ino
         /\ fs[p.node].size = tfile.size
    /\ \A n \in Nodes :
         <<"Extent", n>> \in stderr => fs[n].size = tfile.size

\* The reflink walk ran to its end over a tree where it yielded a regular file
\* with the target's extents and another size: the file is not in the result.
C9_Witness ==
    /\ pc = "done"
    /\ reflink_walk.started
    /\ Len(target_extents) > 0
    /\ \E n \in reflink_walk.yielded :
         /\ fs[n].kind = "file" /\ fs[n].ino # tfile.ino
         /\ fs[n].size # tfile.size
         /\ fs[n].fiemap = tfile.fiemap

\* C10: find_hard_links is started iff the target's link count is above 1 or
\* the force flag is set; otherwise no entry is ever visited for hardlinks and
\* the hardlink result set stays empty.
C10_HardlinkGating ==
    /\ hard_walk.started => (tfile.nlink > 1 \/ args.force_hardlink)
    /\ (HardlinkStageOver \/ pc = "hard_walk") =>
         (hard_walk.started <=> (tfile.nlink > 1 \/ args.force_hardlink))
    /\ ~(tfile.nlink > 1 \/ args.force_hardlink) =>
         (hard_links_set = {} /\ hard_walk.yielded = {})

\* A run to the end with link count 1 and no force flag, over a tree that
\* holds the target on its device: the walk was never started.
C10_Witness ==
    /\ pc = "done"
    /\ tfile.nlink = 1 /\ ~args.force_hardlink
    /\ ~hard_walk.started
    /\ tfile.node \in Nodes /\ Reachable(tfile.node)

====
